---- MODULE Spec2Model ----
(***************************************************************************)
(* Model of the Living SOC Analyzer pipeline engine:                       *)
(*   PipelineWorker  (src/living_soc_dialog.py, lines 46-408), the         *)
(*                   background thread that runs the 12 phases, and        *)
(*   LivingSOCDialog (src/living_soc_dialog.py, lines 414-1061), the       *)
(*                   coordinator that starts, observes and stops it.       *)
(*                                                                         *)
(* The worker thread and the GUI thread interleave.  Every signal the      *)
(* worker emits is appended to `queue` (Qt's queued connection to the GUI  *)
(* thread) and the dialog handles the queue's head in its own steps.       *)
(* `emitted` keeps the stream of the current worker as a history.          *)
(***************************************************************************)
EXTENDS Integers, Sequences, FiniteSets, TLC

(* ---------------------------- bounds ----------------------------------- *)
\* accepted starts in one behaviour
MaxRuns == 2
\* signals emitted and not yet handled by the GUI thread
MaxQueue == 1
\* collaborator calls whose failure _run_full survives (a caught exception,
\* a None or empty result), per behaviour
MaxFaults == 1
\* length of cfg.FACILITY_TYPES (settings module, an external collaborator)
NFacTypes == 1

(* ------------------------ program constants ---------------------------- *)
\* QTableWidget(12, 3): the phase table has one row per phase
NPhases == 12
\* the dialog has two target-area rows (area1_*, area2_*)
MaxAreas == 2

Phases == 1..NPhases
Modes == {"full", "collect", "analyze", "validate", "report"}
\* the keys _run_full_pipeline requires
RequiredKeys == {"data_go_kr", "sgis_consumer_key", "kakao_rest", "vworld"}
\* api-key maps the settings tab can hold, as the set of non-empty keys
KeyChoices == {{}, RequiredKeys}

PercentOfWork(k) == k * 10
\* self.progress.emit(<pct>, ...) of each phase
Percent(k) ==
  CASE k = 1 -> 3  [] k = 2 -> 12 [] k = 3 -> 20 [] k = 4 -> 25
    [] k = 5 -> 33 [] k = 6 -> 40 [] k = 7 -> 50 [] k = 8 -> 58
    [] k = 9 -> 65 [] k = 10 -> 78 [] k = 11 -> 88 [] k = 12 -> 95

VARIABLES
  worker,        \* self.worker of the dialog: the current PipelineWorker
  loc,           \* the local variables of its _run_full call
  emitted,       \* the signals the current worker has emitted, in order
  queue,         \* signals emitted and not yet handled by the dialog
  running,       \* ids of the workers whose thread is running (isRunning)
  API_KEYS,      \* cfg.API_KEYS: the process-wide key map (non-empty keys)
  budget,        \* survivable collaborator failures the environment may still cause
  nRuns,         \* workers created so far
  btn_run,       \* self.btn_run.isEnabled()
  btn_stop,      \* self.btn_stop.isEnabled()
  phase_table,   \* column 2 of self.phase_table
  progress_bar,  \* self.progress_bar.value()
  log_text,      \* self.log_text: the runs whose lines it shows (0: the dialog)
  result,        \* self.result: the run that returned it (0: the initial {})
  dlg_pc,        \* "idle", or "wait" inside _stop_pipeline's worker.wait(3000)
  msg_box        \* the message box shown by the dialog's latest handler

vars == <<worker, loc, emitted, queue, running, API_KEYS, budget, nRuns,
          btn_run, btn_stop, phase_table, progress_bar, log_text, result,
          dlg_pc, msg_box>>
dlgvars == <<btn_run, btn_stop, phase_table, progress_bar, log_text, result,
             msg_box>>

(* ------------------------------ events --------------------------------- *)
Ev(r, kind, ph, st, pct) ==
  [run |-> r, kind |-> kind, ph |-> ph, st |-> st, pct |-> pct]
StatusEv(r, k, st) == Ev(r, "phase_update", k, st, 0)
ProgressEv(r, pct) == Ev(r, "progress", 0, "", pct)
LogEv(r, k)        == Ev(r, "log_msg", k, "", 0)
FinishedEv(r, ret) == Ev(r, "finished", 0, ret, 0)
ErrorEv(r)         == Ev(r, "error", 0, "", 0)

(* --------------------------- initial state ----------------------------- *)
NoSettings == [areas |-> 0, api_keys |-> {}]
\* PipelineWorker.__init__; id 0 stands for self.worker = None.  failed,
\* fetchRaised and cancelMid are history: the phases whose body raised, whether
\* a retrieval of phase 1 raised, whether cancel() came in the middle of a
\* phase; calls is the outcome, area by area, of the retrievals the current
\* phase has made for its single-valued local (population, boundary, graph)
NewWorker(id, mode, settings) ==
  [id |-> id, mode |-> mode, settings |-> settings, is_cancelled |-> FALSE,
   pc |-> "run", ph |-> 0, area |-> 0, ret |-> "none", failed |-> {},
   terminate |-> FALSE, cancelMid |-> FALSE, fetchRaised |-> FALSE,
   calls |-> <<>>]

\* the locals of _run_full before any phase assigned them
NoLoc ==
  [facilities_raw |-> {}, population_raw |-> 0, facilities_merged |-> "None",
   admin_gdf |-> 0, road_graph |-> 0, od_matrix |-> FALSE,
   quality_report |-> FALSE, facilities_gdf |-> FALSE,
   population_gdf |-> FALSE, analysis_results |-> FALSE,
   equity_results |-> FALSE, validation_results |-> FALSE,
   report_paths |-> FALSE]

Init ==
  /\ worker = NewWorker(0, "full", NoSettings)
  /\ loc = NoLoc
  /\ emitted = <<>>
  /\ queue = <<>>
  /\ running = {}
  /\ API_KEYS = {}
  /\ budget = 0
  /\ nRuns = 0
  /\ btn_run = TRUE
  /\ btn_stop = FALSE
  /\ phase_table = [r \in Phases |-> "pending"]
  /\ progress_bar = 0
  /\ log_text = {}
  /\ result = [run |-> 0, ret |-> "empty"]
  /\ dlg_pc = "idle"
  /\ msg_box = "none"

(* ------------------- phase bodies (PipelineWorker._run_full) ----------- *)
(* A phase body is a set of outcomes, one per way its calls to the external *)
(* collaborators can end.  An outcome gives the locals after the body, the  *)
(* number of calls that failed and were survived (cost: a caught exception, *)
(* a None or empty result), whether an exception was raised inside the      *)
(* phase (raised), whether no try block of _run_full caught it (uncaught),  *)
(* and whether the body emitted a log line.                                 *)
Out(l, cost, raised, uncaught, log) ==
  [loc |-> l, cost |-> cost, raised |-> raised, uncaught |-> uncaught,
   log |-> log, calls |-> <<>>]

\* what a retrieval call can do: return data, return None / no rows, raise
FetchResults == {"value", "none", "raise"}
Count(S) == Cardinality(S)

\* lines 109-112: import and construct the fetcher (outside any try)
Phase1Setup(l) ==
  { Out([l EXCEPT !.facilities_raw = {}, !.population_raw = 0],
        0, FALSE, FALSE, FALSE),
    Out(l, 0, TRUE, TRUE, FALSE) }

\* lines 117-138: one iteration of the area loop, for area a
Phase1Area(l, a) ==
  { [Out([l EXCEPT
           !.facilities_raw = @ \cup {<<a, t>> : t \in {u \in 1..NFacTypes : fo[u] = "value"}},
           !.population_raw = IF po = "value" THEN a ELSE @],
        Count({u \in 1..NFacTypes : fo[u] # "value"}) + (IF po = "value" THEN 0 ELSE 1),
        (\E u \in 1..NFacTypes : fo[u] = "raise") \/ po = "raise",
        FALSE, TRUE) EXCEPT !.calls = <<po>>]
    : fo \in [1..NFacTypes -> FetchResults], po \in FetchResults }

\* lines 147-159
Phase2(l) ==
  LET base == [l EXCEPT !.facilities_merged = "None"]
      dfs == l.facilities_raw
  IN  { Out(l, 0, TRUE, TRUE, FALSE),              \* DataProcessor import / constructor
        Out(base, 1, TRUE, FALSE, TRUE) }          \* import pandas / pd.concat raises
      \cup
      (IF dfs # {}
         THEN { Out([base EXCEPT !.facilities_merged = "standardized"], 0, FALSE, FALSE, TRUE),
                \* standardize_columns raises after the concat was assigned
                Out([base EXCEPT !.facilities_merged = "concat"], 1, TRUE, FALSE, TRUE) }
         ELSE { Out(base, 0, FALSE, FALSE, FALSE) })

\* lines 166-172
Phase3(l) ==
  IF l.facilities_merged # "None"
    THEN { Out([l EXCEPT !.facilities_merged = "geocoded"], 0, FALSE, FALSE, TRUE),
           Out(l, 1, TRUE, FALSE, TRUE) }
    ELSE { Out(l, 0, FALSE, FALSE, FALSE) }

Phase4Drops(l) ==
  { Out([l EXCEPT !.facilities_merged = "None"], 0, FALSE, FALSE, TRUE) }
\* lines 179-185
Phase4(l) ==
  IF l.facilities_merged # "None"
    THEN { Out([l EXCEPT !.facilities_merged = "normalized"], 0, FALSE, FALSE, TRUE),
           Out(l, 1, TRUE, FALSE, TRUE) }
    ELSE { Out(l, 0, FALSE, FALSE, FALSE) }

\* a loop "for area in target_areas: x = fetch(area); if x is not None: v = x"
\* inside one try: the calls made, the last value kept, whether one raised
FirstRaise(outs, n) ==
  IF \E i \in 1..n : outs[i] = "raise"
    THEN CHOOSE i \in 1..n : outs[i] = "raise" /\ \A j \in 1..(i-1) : outs[j] # "raise"
    ELSE n + 1
LastValueFirst(outs, m) ==
  IF \E i \in 1..m : outs[i] = "value"
    THEN CHOOSE i \in 1..m : outs[i] = "value" /\ \A j \in 1..(i-1) : outs[j] # "value"
    ELSE 0
LastValue(outs, m) ==
  IF \E i \in 1..m : outs[i] = "value"
    THEN CHOOSE i \in 1..m : outs[i] = "value" /\ \A j \in (i+1)..m : outs[j] # "value"
    ELSE 0
AreaLoop(n) ==
  { [val |-> 0, cost |-> 1, raised |-> TRUE, calls |-> <<>>] }   \* import / constructor raises
  \cup
  { LET fr == FirstRaise(outs, n)
        made == IF fr <= n THEN fr ELSE n
    IN  [val |-> LastValue(outs, fr - 1),
         cost |-> Count({i \in 1..made : outs[i] # "value"}),
         raised |-> fr <= n,
         calls |-> [i \in 1..made |-> outs[i]]]
    : outs \in [1..n -> FetchResults] }

\* lines 192-202
Phase5(l, n) ==
  { [Out([l EXCEPT !.admin_gdf = o.val], o.cost, o.raised, FALSE,
         o.raised \/ o.val # 0) EXCEPT !.calls = o.calls] : o \in AreaLoop(n) }

\* lines 208-220
Phase6(l, n) ==
  { [Out([l EXCEPT !.road_graph = o.val], o.cost, o.raised, FALSE,
         o.raised \/ o.val # 0) EXCEPT !.calls = o.calls] : o \in AreaLoop(n) }

\* line 227: the key phase 7 looks at is the process-wide one
HasKakaoKey(keys) == "kakao_rest" \in keys

\* lines 226-238
Phase7(l, keys) ==
  LET base == [l EXCEPT !.od_matrix = FALSE]
  IN  IF HasKakaoKey(keys)
        THEN { Out([base EXCEPT !.od_matrix = TRUE], 0, FALSE, FALSE, TRUE),
               Out(base, 1, FALSE, FALSE, FALSE),      \* build_kakao_od_matrix returns None
               Out(base, 1, TRUE, FALSE, TRUE) }
        ELSE { Out(base, 0, FALSE, FALSE, TRUE) }

\* lines 245-261: no try block; a raise leaves _run_full
Phase8Raises(l) ==
  { Out([l EXCEPT !.quality_report = FALSE], 0, TRUE, TRUE, FALSE) }
Phase8(l) ==
  LET base == [l EXCEPT !.quality_report = FALSE]
  IN  IF l.facilities_merged # "None"
        THEN { Out([base EXCEPT !.quality_report = TRUE], 0, FALSE, FALSE, TRUE) }
             \cup Phase8Raises(l)
        ELSE { Out(base, 0, FALSE, FALSE, FALSE) }

\* lines 276-287 and 289-298: build one GeoDataFrame
GdfStage(l, field, present) ==
  IF present
    THEN { [loc |-> [l EXCEPT ![field] = TRUE], cost |-> 0, raised |-> FALSE],
           [loc |-> l, cost |-> 1, raised |-> FALSE],   \* no lon/lat column or no valid row
           [loc |-> l, cost |-> 1, raised |-> TRUE],    \* raises before the assignment
           [loc |-> [l EXCEPT ![field] = TRUE], cost |-> 1, raised |-> TRUE] } \* to_crs raises
    ELSE { [loc |-> l, cost |-> 0, raised |-> FALSE] }

\* lines 300-309
AnalyzeStage(l) ==
  IF l.facilities_gdf /\ l.population_gdf
    THEN { [loc |-> [l EXCEPT !.analysis_results = TRUE], cost |-> 0, raised |-> FALSE],
           [loc |-> l, cost |-> 1, raised |-> FALSE],   \* run_full_analysis returns {}
           [loc |-> l, cost |-> 1, raised |-> TRUE] }
    ELSE { [loc |-> l, cost |-> 0, raised |-> FALSE] }

\* lines 268-313
Phase9(l) ==
  LET base == [l EXCEPT !.analysis_results = FALSE, !.facilities_gdf = FALSE,
                        !.population_gdf = FALSE]
      Then(S, Stage(_)) ==
        { s \in S : s.raised } \cup
        UNION { { [loc |-> t.loc, cost |-> s.cost + t.cost, raised |-> t.raised]
                  : t \in Stage(s.loc) } : s \in { u \in S : ~u.raised } }
      F(x) == GdfStage(x, "facilities_gdf", x.facilities_merged # "None")
      P(x) == GdfStage(x, "population_gdf", x.population_raw # 0)
      A(x) == AnalyzeStage(x)
      start == { [loc |-> base, cost |-> 0, raised |-> FALSE],
                 [loc |-> base, cost |-> 1, raised |-> TRUE] }   \* import geopandas raises
  IN  { Out(s.loc, s.cost, s.raised, FALSE, TRUE)
        : s \in Then(Then(Then(start, F), P), A) }

\* lines 320-329
Phase10(l) ==
  LET base == [l EXCEPT !.equity_results = FALSE]
  IN  { Out(base, 1, TRUE, FALSE, TRUE) } \cup
      (IF l.analysis_results
         THEN { Out([base EXCEPT !.equity_results = TRUE], 0, FALSE, FALSE, TRUE) }
         ELSE { Out(base, 0, FALSE, FALSE, FALSE) })

\* lines 336-347
Phase11(l) ==
  LET base == [l EXCEPT !.validation_results = FALSE]
  IN  { Out(base, 1, TRUE, FALSE, TRUE) } \cup
      (IF l.facilities_gdf /\ l.analysis_results
         THEN { Out([base EXCEPT !.validation_results = TRUE], 0, FALSE, FALSE, TRUE) }
         ELSE { Out(base, 0, FALSE, FALSE, FALSE) })

\* lines 355-368
Phase12(l) ==
  LET base == [l EXCEPT !.report_paths = FALSE]
  IN  { Out([base EXCEPT !.report_paths = TRUE], 0, FALSE, FALSE, TRUE),
        Out(base, 1, TRUE, FALSE, TRUE) }

\* the body of phase k (k = 2..12) with n target areas
Body(k, l, n, keys) ==
  CASE k = 2 -> Phase2(l)   [] k = 3 -> Phase3(l)   [] k = 4 -> Phase4(l)
    [] k = 5 -> Phase5(l, n) [] k = 6 -> Phase6(l, n) [] k = 7 -> Phase7(l, keys)
    [] k = 8 -> Phase8(l)   [] k = 9 -> Phase9(l)   [] k = 10 -> Phase10(l)
    [] k = 11 -> Phase11(l) [] k = 12 -> Phase12(l)

(* ------------------------- PipelineWorker ------------------------------ *)
IsRunning(w) == w.id # 0 /\ w.id \in running
WorkerAt(p) == IsRunning(worker) /\ worker.pc = p
Room == Len(queue) < MaxQueue
NAreas == worker.settings.areas

\* <signal>.emit(...): the signal is queued for the GUI thread
Emit(e) == emitted' = Append(emitted, e) /\ queue' = Append(queue, e)
NoEmit == UNCHANGED <<emitted, queue>>

EmitsFinishedInverted(w) == w.is_cancelled
\* line 78: "if not self._is_cancelled"
EmitsFinished(w) == ~w.is_cancelled
AfterErrorFallsThrough == "emit"
\* lines 80-81: the except clause is the last statement of run()
AfterError == "exit"
NextPhaseSkips(k) == IF k = 3 THEN 5 ELSE k + 1
\* the phase that follows phase k in _run_full
NextPhase(k) == k + 1
PhaseIndexCopied(k) == IF k = 6 THEN 5 ELSE k
\* the index the block of phase k passes to self.phase_update.emit
PhaseIndex(k) == k
EndStatusRunning(raised) == "running"
\* the status _run_full emits when the body of a phase is over
EndStatus(raised) == "done"
\* line 115: the area loop of phase 1 looks at the flag in every iteration
AreaLoopCancelled(w) == w.is_cancelled

\* lines 80-81: an exception leaves the try block of run()
Raise(w) ==
  /\ Emit(ErrorEv(w.id))
  /\ worker' = [w EXCEPT !.pc = AfterError]

\* lines 393-408: the log line _run_collect, _run_analyze, _run_validate and
\* _run_report emit first
ModeLogs(mode) == mode \in {"collect", "analyze", "validate", "report"}
\* lines 65-76 and 393-408: _run_full and _run_collect run the pipeline, the
\* other modes return {}
ModeRunsPipeline(mode) == mode \in {"full", "collect"}

\* lines 63-76: run() dispatches on the mode
RunDispatch ==
  /\ WorkerAt("run") /\ Room
  /\ IF ModeLogs(worker.mode) THEN Emit(LogEv(worker.id, 0)) ELSE NoEmit
  /\ worker' = IF ModeRunsPipeline(worker.mode)
                 THEN [worker EXCEPT !.pc = "prologue"]
                 ELSE [worker EXCEPT !.pc = "check", !.ret = "empty"]
  /\ UNCHANGED <<loc, running, API_KEYS, budget, nRuns, dlgvars, dlg_pc>>

\* lines 86-89: the banner
Prologue ==
  /\ WorkerAt("prologue") /\ Room
  /\ Emit(LogEv(worker.id, 0))
  /\ worker' = [worker EXCEPT !.pc = "inject"]
  /\ UNCHANGED <<loc, running, API_KEYS, budget, nRuns, dlgvars, dlg_pc>>

\* lines 92-96: every non-empty user key overwrites the process-wide one
InjectKeys(keys, user_keys) == keys \cup user_keys

\* lines 92-102: key injection, settings, mkdir of the output directory
Inject ==
  /\ WorkerAt("inject") /\ Room
  /\ API_KEYS' = InjectKeys(API_KEYS, worker.settings.api_keys)
  /\ \/ /\ worker' = [worker EXCEPT !.pc = "status", !.ph = 1]
        /\ NoEmit
        /\ UNCHANGED budget
     \/ /\ Raise(worker)                          \* Path(output_dir).mkdir raises
        /\ UNCHANGED budget
  /\ UNCHANGED <<loc, running, nRuns, dlgvars, dlg_pc>>

\* self.phase_update.emit(k, "running")
PhaseStatus ==
  /\ WorkerAt("status") /\ Room
  /\ Emit(StatusEv(worker.id, PhaseIndex(worker.ph), "running"))
  /\ worker' = [worker EXCEPT !.pc = "progress"]
  /\ UNCHANGED <<loc, running, API_KEYS, budget, nRuns, dlgvars, dlg_pc>>

\* self.progress.emit(<pct>, "[Phase k/12] ...")
PhaseProgress ==
  /\ WorkerAt("progress") /\ Room
  /\ Emit(ProgressEv(worker.id, Percent(worker.ph)))
  /\ worker' = [worker EXCEPT !.pc = "header"]
  /\ UNCHANGED <<loc, running, API_KEYS, budget, nRuns, dlgvars, dlg_pc>>

\* self.log_msg.emit("\n[Phase k/12] ...")
PhaseHeader ==
  /\ WorkerAt("header") /\ Room
  /\ Emit(LogEv(worker.id, worker.ph))
  /\ worker' = [worker EXCEPT !.pc = IF worker.ph = 1 THEN "setup" ELSE "body"]
  /\ UNCHANGED <<loc, running, API_KEYS, budget, nRuns, dlgvars, dlg_pc>>

\* lines 109-112
Phase1SetupStep ==
  /\ WorkerAt("setup") /\ Room
  /\ \E o \in Phase1Setup(loc) :
       /\ o.cost <= budget
       /\ budget' = budget - o.cost
       /\ loc' = o.loc
       /\ IF o.uncaught
            THEN Raise([worker EXCEPT !.failed = @ \cup {1}])
            ELSE /\ worker' = [worker EXCEPT !.area = 1,
                                 !.pc = IF NAreas = 0 THEN "done" ELSE "area"]
                 /\ NoEmit
  /\ UNCHANGED <<running, API_KEYS, nRuns, dlgvars, dlg_pc>>

\* lines 114-138: one iteration of "for area_name, area_info in target_areas"
Phase1AreaStep ==
  /\ WorkerAt("area") /\ Room
  /\ IF AreaLoopCancelled(worker)
       THEN /\ worker' = [worker EXCEPT !.pc = "check", !.ret = "cancelled"]
            /\ NoEmit
            /\ UNCHANGED <<loc, budget>>
       ELSE \E o \in Phase1Area(loc, worker.area) :
              /\ o.cost <= budget
              /\ budget' = budget - o.cost
              /\ loc' = o.loc
              /\ Emit(LogEv(worker.id, 1))
              /\ worker' = [worker EXCEPT
                   !.area = @ + 1,
                   !.fetchRaised = @ \/ o.raised,
                   !.calls = @ \o o.calls,
                   !.pc = IF worker.area >= NAreas THEN "done" ELSE "area"]
  /\ UNCHANGED <<running, API_KEYS, nRuns, dlgvars, dlg_pc>>

\* the body of phase 2..12
PhaseBody ==
  /\ WorkerAt("body") /\ Room
  /\ \E o \in Body(worker.ph, loc, NAreas, API_KEYS) :
       /\ o.cost <= budget
       /\ budget' = budget - o.cost
       /\ loc' = o.loc
       /\ LET w == [worker EXCEPT
                      !.failed = IF o.raised THEN @ \cup {worker.ph} ELSE @,
                      !.calls = o.calls]
          IN  IF o.uncaught
                THEN Raise(w)
                ELSE /\ worker' = [w EXCEPT !.pc = "done"]
                     /\ IF o.log THEN Emit(LogEv(worker.id, worker.ph))
                                 ELSE NoEmit
  /\ UNCHANGED <<running, API_KEYS, nRuns, dlgvars, dlg_pc>>

\* self.phase_update.emit(k, "done"), then on to the next phase
PhaseDone ==
  /\ WorkerAt("done") /\ Room
  /\ Emit(StatusEv(worker.id, PhaseIndex(worker.ph),
                   EndStatus(worker.ph \in worker.failed)))
  /\ worker' = IF worker.ph < NPhases
                 THEN [worker EXCEPT !.pc = "status", !.ph = NextPhase(@),
                                     !.calls = <<>>]
                 ELSE [worker EXCEPT !.pc = "epilogue", !.calls = <<>>]
  /\ UNCHANGED <<loc, running, API_KEYS, budget, nRuns, dlgvars, dlg_pc>>

\* line 372: self.progress.emit(100, ...)
Epilogue ==
  /\ WorkerAt("epilogue") /\ Room
  /\ Emit(ProgressEv(worker.id, 100))
  /\ worker' = [worker EXCEPT !.pc = "epilogue_log"]
  /\ UNCHANGED <<loc, running, API_KEYS, budget, nRuns, dlgvars, dlg_pc>>

\* lines 378-390: the dict _run_full returns, as far as _on_finished looks at
\* it: whether its "validation" entry is empty
ReturnedDict(l) == IF l.validation_results THEN "full_validation" ELSE "full"

\* lines 373-390: the closing log lines and the returned dict
EpilogueLog ==
  /\ WorkerAt("epilogue_log") /\ Room
  /\ Emit(LogEv(worker.id, 0))
  /\ worker' = [worker EXCEPT !.pc = "check", !.ret = ReturnedDict(loc)]
  /\ UNCHANGED <<loc, running, API_KEYS, budget, nRuns, dlgvars, dlg_pc>>

\* line 78
RunCheck ==
  /\ WorkerAt("check")
  /\ worker' = [worker EXCEPT !.pc = IF EmitsFinished(worker) THEN "emit" ELSE "exit"]
  /\ UNCHANGED <<loc, emitted, queue, running, API_KEYS, budget, nRuns,
                 dlgvars, dlg_pc>>

\* line 79
RunEmit ==
  /\ WorkerAt("emit") /\ Room
  /\ Emit(FinishedEv(worker.id, worker.ret))
  /\ worker' = [worker EXCEPT !.pc = "exit"]
  /\ UNCHANGED <<loc, running, API_KEYS, budget, nRuns, dlgvars, dlg_pc>>

\* run() returns: the thread is no longer running
ThreadExit ==
  /\ WorkerAt("exit")
  /\ worker' = [worker EXCEPT !.pc = "ended"]
  /\ running' = running \ {worker.id}
  /\ UNCHANGED <<loc, emitted, queue, API_KEYS, budget, nRuns, dlgvars, dlg_pc>>

\* QThread.terminate() takes effect: the thread is killed where it stands.
\* When (and whether) that happens after the call is up to the platform.
Kill ==
  /\ IsRunning(worker) /\ worker.terminate
  /\ running' = running \ {worker.id}
  /\ UNCHANGED <<worker, loc, emitted, queue, API_KEYS, budget, nRuns,
                 dlgvars, dlg_pc>>

WorkerStep ==
  \/ RunDispatch \/ Prologue \/ Inject \/ PhaseStatus \/ PhaseProgress
  \/ PhaseHeader \/ Phase1SetupStep \/ Phase1AreaStep \/ PhaseBody
  \/ PhaseDone \/ Epilogue \/ EpilogueLog \/ RunCheck \/ RunEmit
  \/ ThreadExit

(* -------------------------- LivingSOCDialog ---------------------------- *)
\* _collect_settings: what the settings tab can hold
Settings == [areas : 0..MaxAreas, api_keys : KeyChoices]
\* line 870: the only caller of _run_phase is the report tab's button
RunPhaseModes == {"report"}
\* the modes a PipelineWorker can be constructed with (line 56), and one more
\* for the else branch of run()
WorkerModes == Modes \cup {"other"}

StartNeverRejected(w) == FALSE
\* line 945: "if self.worker and self.worker.isRunning()"
StartRejected(w) == IsRunning(w)

\* _reset_buttons
ResetButtons == btn_run' = TRUE /\ btn_stop' = FALSE

\* lines 944-965
StartWorker(mode, s) ==
  IF StartRejected(worker)
    THEN /\ msg_box' = "already_running"
         /\ UNCHANGED <<worker, loc, emitted, queue, running, API_KEYS, budget,
                        nRuns, btn_run, btn_stop, phase_table, progress_bar,
                        log_text, result, dlg_pc>>
    ELSE /\ nRuns < MaxRuns
         /\ nRuns' = nRuns + 1
         /\ log_text' = {}
         /\ progress_bar' = 0
         /\ btn_run' = FALSE
         /\ btn_stop' = TRUE
         /\ phase_table' = [r \in Phases |-> "pending"]
         /\ worker' = NewWorker(nRuns + 1, mode, s)
         /\ loc' = NoLoc
         /\ emitted' = <<>>
         /\ running' = running \cup {nRuns + 1}
         /\ msg_box' = "none"
         /\ UNCHANGED <<queue, API_KEYS, budget, result, dlg_pc>>

\* lines 914-938: the run button
RunFullPipeline ==
  /\ dlg_pc = "idle" /\ btn_run
  /\ \E s \in Settings :
       IF ~(RequiredKeys \subseteq s.api_keys)
         THEN /\ msg_box' = "missing_keys"
              /\ UNCHANGED <<worker, loc, emitted, queue, running, API_KEYS,
                             budget, nRuns, btn_run, btn_stop, phase_table,
                             progress_bar, log_text, result, dlg_pc>>
         ELSE IF s.areas = 0
           THEN /\ msg_box' = "no_areas"
                /\ UNCHANGED <<worker, loc, emitted, queue, running, API_KEYS,
                               budget, nRuns, btn_run, btn_stop, phase_table,
                               progress_bar, log_text, result, dlg_pc>>
           ELSE StartWorker("full", s)

\* lines 940-942
RunPhase ==
  /\ dlg_pc = "idle"
  /\ \E mode \in RunPhaseModes, s \in Settings : StartWorker(mode, s)

\* the phase the worker is in the middle of (0: none)
PhaseInProgress(w) ==
  IF w.pc \in {"progress", "header", "setup", "area", "body"} THEN w.ph ELSE 0

CancelToggles(w) ==
  [w EXCEPT !.is_cancelled = ~@,
            !.cancelMid = IF w.is_cancelled THEN @ ELSE PhaseInProgress(w) # 0]
\* line 61; cancelMid records whether a phase was in progress at the call
Cancel(w) ==
  [w EXCEPT !.is_cancelled = TRUE,
            !.cancelMid = IF w.is_cancelled THEN @ ELSE PhaseInProgress(w) # 0]

\* lines 967-971: cancel(), terminate(), then the bounded wait begins
StopPipeline ==
  /\ dlg_pc = "idle" /\ btn_stop
  /\ msg_box' = "none"
  /\ IF IsRunning(worker)
       THEN /\ worker' = [Cancel(worker) EXCEPT !.terminate = TRUE]
            /\ dlg_pc' = "wait"
       ELSE UNCHANGED <<worker, dlg_pc>>
  /\ UNCHANGED <<loc, emitted, queue, running, API_KEYS, budget, nRuns,
                 btn_run, btn_stop, phase_table, progress_bar, log_text, result>>

\* lines 971-973: wait(3000) returns (the thread ended, or 3 s went by)
StopReturn ==
  /\ dlg_pc = "wait"
  /\ dlg_pc' = "idle"
  /\ log_text' = log_text \cup {0}
  /\ ResetButtons
  /\ UNCHANGED <<worker, loc, emitted, queue, running, API_KEYS, budget, nRuns,
                 phase_table, progress_bar, result, msg_box>>

\* lines 976-978
OnProgress(e) ==
  /\ progress_bar' = e.pct
  /\ msg_box' = "none"
  /\ UNCHANGED <<btn_run, btn_stop, phase_table, log_text, result>>

\* lines 980-981
OnLog(e) ==
  /\ log_text' = log_text \cup {e.run}
  /\ msg_box' = "none"
  /\ UNCHANGED <<btn_run, btn_stop, phase_table, progress_bar, result>>

\* lines 983-989
OnPhaseUpdate(e) ==
  /\ phase_table' = IF e.ph - 1 >= 0 /\ e.ph - 1 < NPhases
                      THEN [phase_table EXCEPT ![e.ph] = e.st]
                      ELSE phase_table
  /\ msg_box' = "none"
  /\ UNCHANGED <<btn_run, btn_stop, progress_bar, log_text, result>>

MarkPendingKept(t) == t
\* lines 997-1001: every row still showing "pending" is set to "done"
MarkPending(t) == [r \in Phases |-> IF t[r] = "pending" THEN "done" ELSE t[r]]

\* lines 1019-1033: the validation table.  With a non-empty validation dict
\* whose spatial-autocorrelation section lacks "I" or "p_value", the default
\* "-" is formatted with ":.4f" and the handler raises (TRUE); the section is
\* produced by the statistical validator, so this draws on the budget
FinishedRaises(e, b) ==
  {FALSE} \cup (IF e.st = "full_validation" /\ b > 0 THEN {TRUE} ELSE {})

\* lines 991-1044; an exception leaves the handler before _reset_buttons
OnFinished(e) ==
  /\ result' = [run |-> e.run, ret |-> e.st]
  /\ progress_bar' = 100
  /\ phase_table' = MarkPending(phase_table)
  /\ \E raises \in FinishedRaises(e, budget) :
       IF raises
         THEN /\ budget' = budget - 1
              /\ msg_box' = "exception"
              /\ UNCHANGED <<btn_run, btn_stop>>
         ELSE /\ ResetButtons
              /\ msg_box' = "done"
              /\ UNCHANGED budget
  /\ UNCHANGED log_text

\* lines 1046-1052
OnError(e) ==
  /\ log_text' = log_text \cup {e.run}
  /\ ResetButtons
  /\ msg_box' = "error"
  /\ UNCHANGED <<phase_table, progress_bar, result>>

\* the GUI thread's event loop handles the next queued signal
Deliver ==
  /\ dlg_pc = "idle" /\ queue # <<>>
  /\ LET e == Head(queue)
     IN  CASE e.kind = "progress" -> OnProgress(e) /\ UNCHANGED budget
           [] e.kind = "log_msg" -> OnLog(e) /\ UNCHANGED budget
           [] e.kind = "phase_update" -> OnPhaseUpdate(e) /\ UNCHANGED budget
           [] e.kind = "finished" -> OnFinished(e)
           [] e.kind = "error" -> OnError(e) /\ UNCHANGED budget
  /\ queue' = Tail(queue)
  /\ UNCHANGED <<worker, loc, emitted, running, API_KEYS, nRuns, dlg_pc>>

Next ==
  \/ WorkerStep \/ Kill
  \/ RunFullPipeline \/ RunPhase \/ StopPipeline \/ StopReturn \/ Deliver

\* The plugin as its user can drive it: the run button, the report button, the
\* stop button.  The collaborators' survivable failures are left to SpecWorker.
Spec == Init /\ [][Next]_vars

\* One PipelineWorker, constructed with any mode and any settings and started
\* by _start_worker in a fresh dialog; the dialog observes it and may stop it.
InitWorker ==
  /\ \E mode \in WorkerModes, s \in Settings : worker = NewWorker(1, mode, s)
  /\ loc = NoLoc
  /\ emitted = <<>>
  /\ queue = <<>>
  /\ running = {1}
  /\ API_KEYS \in KeyChoices     \* what earlier runs of the process left in cfg
  /\ budget = MaxFaults
  /\ nRuns = 1
  /\ btn_run = FALSE
  /\ btn_stop = TRUE
  /\ phase_table = [r \in Phases |-> "pending"]
  /\ progress_bar = 0
  /\ log_text = {}
  /\ result = [run |-> 0, ret |-> "empty"]
  /\ dlg_pc = "idle"
  /\ msg_box = "none"

NextWorker == WorkerStep \/ Kill \/ StopPipeline \/ StopReturn \/ Deliver

SpecWorker == InitWorker /\ [][NextWorker]_vars

\* The same worker under the scheduling the platform guarantees: a running
\* thread goes on, and the GUI thread's event loop handles what is queued.
FairSpecWorker == SpecWorker /\ WF_vars(WorkerStep) /\ WF_vars(Deliver)

(* ------------------------------ claims --------------------------------- *)
HasEv(e) == \E i \in DOMAIN emitted : emitted[i] = e
Terminals == { i \in DOMAIN emitted : emitted[i].kind \in {"finished", "error"} }
HasFinished == \E i \in DOMAIN emitted : emitted[i].kind = "finished"
HasError == \E i \in DOMAIN emitted : emitted[i].kind = "error"
RunOver == worker.pc \in {"exit", "ended"}
\* this step is an emit of the current worker
EmitsOne == worker'.id = worker.id /\ Len(emitted') = Len(emitted) + 1
EmitsStatus(st) ==
  /\ EmitsOne
  /\ emitted'[Len(emitted')].kind = "phase_update"
  /\ emitted'[Len(emitted')].st = st
EmitsTerminal ==
  EmitsOne /\ emitted'[Len(emitted')].kind \in {"finished", "error"}
\* cancel() was called while a phase was in progress
CancelledMidPhase == worker.is_cancelled /\ worker.cancelMid

\* C1: once cancel() was called while phase k was in progress (after its
\* "running" status, before its body was over), no later step of the run emits
\* a "running" status: PhaseStatus(k+1, running) is never emitted.
C1_NoRunningAfterCancel ==
  [][CancelledMidPhase => ~EmitsStatus("running")]_vars

\* C2: when the body of a phase k failed in a run that was not cancelled, the
\* run, once over, has emitted "running" for every phase after k, has emitted
\* Completed and has not emitted Failed.
C2_FailureContained ==
  \A k \in worker.failed :
    (RunOver /\ ~worker.is_cancelled) =>
      /\ \A j \in (k + 1)..NPhases : HasEv(StatusEv(worker.id, j, "running"))
      /\ HasFinished
      /\ ~HasError

\* C3: a phase whose body failed is reported with status "error", never with
\* status "done": "done" is emitted only for a phase whose body succeeded.
C3_ErrorStatusOnFailure ==
  \A k \in Phases :
    /\ HasEv(StatusEv(worker.id, k, "done")) => k \notin worker.failed
    /\ (k \in worker.failed /\ (worker.ph > k \/ RunOver))
         => HasEv(StatusEv(worker.id, k, "error"))

\* C4: a run emits at most one terminal event: never both Completed (finished)
\* and Failed (error), and neither of them twice.
C4_AtMostOneTerminal == Cardinality(Terminals) <= 1
C4_Witness == HasError /\ HasEv(StatusEv(worker.id, 8, "running")) /\ RunOver

\* C5: a started run on which cancel() is never called eventually emits
\* Completed or Failed, whatever its mode and whatever its phase bodies do.
C5_Terminates == <>(Terminals # {} \/ worker.is_cancelled)
C5_Witness ==
  /\ worker.mode = "collect" /\ ~worker.is_cancelled
  /\ HasFinished /\ worker.pc = "ended"

\* C6: once cancel() was called on a run, the run emits no terminal event:
\* neither Completed nor Failed, whatever the phases still executed do.
C6_NoTerminalAfterCancel ==
  [][worker.is_cancelled => ~EmitsTerminal]_vars

\* C7: a start request made while the worker is running is rejected and changes
\* nothing: the worker reference is kept, no worker is created, the log is not
\* cleared, the progress bar is not reset, no phase is set back to pending, the
\* stop button is not enabled; and at most one worker runs at any time.
C7_SingleRun ==
  /\ [](Cardinality(running) <= 1)
  /\ [][IsRunning(worker) =>
          /\ worker'.id = worker.id
          /\ nRuns' = nRuns
          /\ (log_text' = {} => log_text = {})
          /\ (progress_bar' = 0 => progress_bar = 0)
          /\ \A r \in Phases : phase_table'[r] = "pending" => phase_table[r] = "pending"
          /\ (btn_stop' => btn_stop)
          /\ ((msg_box # "already_running" /\ msg_box' = "already_running") =>
                UNCHANGED <<worker, loc, emitted, queue, running, btn_run,
                            btn_stop, phase_table, progress_bar, log_text,
                            result>>)]_vars
C7_Witness ==
  /\ msg_box = "already_running" /\ IsRunning(worker)
  /\ worker.mode = "full" /\ worker.ph >= 2

\* C8: cancellation never stops a phase that has emitted "running" before its
\* body has returned: the worker is not killed in the middle of a phase and
\* its own cancellation check does not leave a phase.
KilledMidPhase ==
  worker.id # 0 /\ ~IsRunning(worker) /\ PhaseInProgress(worker) # 0
C8_NoMidPhaseStop == ~KilledMidPhase /\ worker.ret # "cancelled"

\* C9: once cancel() was called while phase k was in progress, the effects of
\* phase k are discarded: no "done" status is emitted and the locals that hold
\* the in-progress result are not written.
C9_CancelDiscardsPhase ==
  [][CancelledMidPhase => (~EmitsStatus("done") /\ loc' = loc)]_vars

\* C10: the "running" statuses of one run are emitted in strictly ascending
\* order of their phase index.
IsRunningEv(e) == e.kind = "phase_update" /\ e.st = "running"
C10_RunningAscending ==
  \A j \in DOMAIN emitted :
    IsRunningEv(emitted[j]) =>
      \A i \in 1..(j - 1) :
        IsRunningEv(emitted[i]) => emitted[i].ph < emitted[j].ph
C10_Witness ==
  /\ HasEv(StatusEv(worker.id, 1, "running"))
  /\ HasEv(StatusEv(worker.id, NPhases, "running"))

\* the events at positions S of the stream
IsStatusEv(e) == e.kind = "phase_update"
IsEndEv(e) == e.kind = "phase_update" /\ e.st \in {"done", "error"}
\* the phases that have emitted "running" and neither "done" nor "error"
OpenPhases ==
  { k \in Phases :
      /\ HasEv(StatusEv(worker.id, k, "running"))
      /\ ~HasEv(StatusEv(worker.id, k, "done"))
      /\ ~HasEv(StatusEv(worker.id, k, "error")) }
\* the event at position i belongs to phase k: its status, its progress event
\* or one of its log lines
OfPhase(i, k) ==
  \/ emitted[i].kind \in {"phase_update", "log_msg"} /\ emitted[i].ph = k
  \/ /\ emitted[i].kind = "progress" /\ i > 1
     /\ emitted[i - 1] = StatusEv(worker.id, k, "running")

\* C11: phases never overlap: at most one phase has emitted "running" without
\* its "done"/"error", and when "running" is emitted for a phase, the phase
\* emitted "running" for last has emitted its "done"/"error" and none of its
\* events (status, progress, log lines) comes later in the stream.
C11_NoOverlap ==
  /\ Cardinality(OpenPhases) <= 1
  /\ \A j \in DOMAIN emitted :
       (IsRunningEv(emitted[j]) /\ emitted[j].ph > 1) =>
         LET n == emitted[j].ph - 1
         IN  /\ \E i \in 1..(j - 1) : IsEndEv(emitted[i]) /\ emitted[i].ph = n
             /\ \A i \in (j + 1)..Len(emitted) : ~OfPhase(i, n)
C11_Witness ==
  /\ HasEv(StatusEv(worker.id, NPhases, "done"))
  /\ HasEv(LogEv(worker.id, 5)) /\ HasEv(LogEv(worker.id, 11))

\* C12: per-phase status is forward-only: of two statuses emitted for the same
\* index the first is "running" and the second is "done" or "error", and no
\* index has more than two statuses; so "running" is emitted at most once,
\* "done"/"error" at most once and never first, and nothing follows them.
C12_StatusForwardOnly ==
  \A j \in DOMAIN emitted :
    IsStatusEv(emitted[j]) =>
      /\ (emitted[j].st # "running" =>
            \E i \in 1..(j - 1) : emitted[i] = StatusEv(worker.id, emitted[j].ph, "running"))
      /\ \A i \in 1..(j - 1) :
           (IsStatusEv(emitted[i]) /\ emitted[i].ph = emitted[j].ph) =>
             emitted[i].st = "running" /\ emitted[j].st # "running"
C12_Witness ==
  /\ worker.mode = "collect"
  /\ HasEv(StatusEv(worker.id, 1, "done"))
  /\ HasEv(StatusEv(worker.id, NPhases, "done"))

\* this step is the body of a phase of the current run, and the body failed
BodyFails == worker'.id = worker.id /\ worker'.failed # worker.failed

\* C13: a phase whose body fails writes nothing: the step in which a body
\* fails leaves the locals that hold the in-progress result as they were
\* before the phase.
C13_FailedPhaseWritesNothing == [][BodyFails => loc' = loc]_vars

\* the artifacts of the in-progress result that have been written
Written(l) ==
  { f \in DOMAIN l :
      CASE f = "facilities_raw" -> l[f] # {}
        [] f \in {"population_raw", "admin_gdf", "road_graph"} -> l[f] # 0
        [] f = "facilities_merged" -> l[f] # "None"
        [] OTHER -> l[f] = TRUE }
\* the processing stage a merged facility table is the output of
MergedRank(v) ==
  CASE v = "None" -> 0 [] v = "concat" -> 1 [] v = "standardized" -> 2
    [] v = "geocoded" -> 3 [] v = "normalized" -> 4

C15_EmptyAreasRejected ==
  (worker.id # 0 /\ worker.settings.areas = 0) =>
    \A i \in DOMAIN emitted : ~IsStatusEv(emitted[i])

\* the phases each mode announces in its log line
ModeSelection(mode) ==
  CASE mode = "full" -> 1..NPhases
    [] mode = "collect" -> 1..8
    [] mode = "analyze" -> {9}
    [] mode = "validate" -> {11}
    [] mode = "report" -> {NPhases}
    [] OTHER -> {}

\* C16: a run emits "running" only for the phases of its mode's sub-selection
\* (collect 1..8, analyze 9, validate 11, report 12, full 1..12), and a run
\* that ended with Completed has emitted "running" for each of them.
C16_ModeSubSelection ==
  /\ \A i \in DOMAIN emitted :
       IsRunningEv(emitted[i]) => emitted[i].ph \in ModeSelection(worker.mode)
  /\ HasFinished =>
       \A k \in ModeSelection(worker.mode) : HasEv(StatusEv(worker.id, k, "running"))

\* C17: the cancelled flag is set-once and cancel() is idempotent: a new
\* worker has the flag false, no step of the worker or the dialog sets a true
\* flag back to false, and in every reachable state a second cancel() leaves
\* the worker exactly as the first one did (so the run goes on the same way).
C17_CancelSetOnce ==
  /\ [](Cancel(Cancel(worker)) = Cancel(worker))
  /\ [][/\ (worker'.id = worker.id /\ worker.is_cancelled) => worker'.is_cancelled
        /\ (worker'.id # worker.id) => ~worker'.is_cancelled]_vars
C17_Witness ==
  /\ worker.id = MaxRuns /\ worker.is_cancelled
  /\ worker.ph = NPhases /\ worker.pc = "ended"

\* C18: progress is a fixed function of the phase index: the event right after
\* PhaseStatus(i, running) is the progress event with the percent of the table
\* for i, in every run and whatever the settings and the earlier phases did;
\* every percent is in 0..100; and there is no other progress event inside a
\* phase (the only other one is the closing 100 after the last phase's "done").
C18_ProgressTable ==
  \A j \in DOMAIN emitted :
    /\ (IsRunningEv(emitted[j]) /\ j < Len(emitted)) =>
         emitted[j + 1] = ProgressEv(worker.id, Percent(emitted[j].ph))
    /\ emitted[j].kind = "progress" =>
         /\ emitted[j].pct \in 0..100
         /\ j > 1
         /\ \/ /\ IsRunningEv(emitted[j - 1])
               /\ emitted[j].pct = Percent(emitted[j - 1].ph)
            \/ /\ emitted[j - 1] = StatusEv(worker.id, NPhases, "done")
               /\ emitted[j].pct = 100
C18_Witness ==
  /\ HasEv(ProgressEv(worker.id, 100))
  /\ HasEv(ProgressEv(worker.id, Percent(7)))
  /\ worker.failed # {} /\ worker.settings.areas = MaxAreas

\* C19: a run uses only its own settings: no step of a run changes the
\* process-wide key map, and phase 7 builds the OD matrix only when the run's
\* own settings hold the key it needs, whatever the process-wide map held
\* when the run started.
C19_OwnSettingsOnly ==
  /\ [](loc.od_matrix => HasKakaoKey(worker.settings.api_keys))
  /\ [][worker'.id = worker.id => API_KEYS' = API_KEYS]_vars

\* C20: a full run with one target area in which every facility retrieval
\* returned no rows, nothing raised and all twelve phases ran ends with
\* Completed, and the quality section of its result holds the facility-count
\* fields (with value zero).
C20_ZeroFacilitiesCounted ==
  ( /\ worker.mode = "full" /\ worker.settings.areas = 1
    /\ loc.facilities_raw = {} /\ ~worker.fetchRaised /\ worker.failed = {}
    /\ HasEv(StatusEv(worker.id, NPhases, "done"))
    /\ RunOver /\ ~worker.is_cancelled )
  => (HasFinished /\ loc.quality_report)

\* the stop action was taken on the current worker and has returned
StopCompleted == worker.is_cancelled /\ dlg_pc = "idle"
\* this step is the dialog handling the head of the queue
Handles == queue # <<>> /\ Len(queue') = Len(queue) - 1
HandlesFinished == Handles /\ Head(queue).kind = "finished"

\* C21: once the stop action on a run has completed (cancel requested, the
\* worker terminated or the bounded wait over, buttons reset), the dialog
\* handles no Completed event of that run.
C21_NoCompletedAfterStop ==
  [][StopCompleted => ~(HandlesFinished /\ Head(queue).run = worker.id)]_vars

\* C22: every event the dialog handles was emitted by the worker it holds:
\* once a new run has been started, no progress, log, phase-status or terminal
\* event of an earlier worker is applied to the display or the stored result.
C22_HandlesOwnRunOnly == [][Handles => Head(queue).run = worker.id]_vars

\* C23: the stored result changes only in the step that handles a Completed
\* event; and once the current run has failed (it emitted Failed) or was
\* cancelled (the stop action on it has completed), the stored result does not
\* become that run's: it stays the one of the last completed run.
C23_ResultFrame ==
  /\ [][result' # result => HandlesFinished]_vars
  /\ [][(StopCompleted \/ HasError) =>
          (result'.run = worker.id => result.run = worker.id)]_vars

HandlesTerminal == Handles /\ Head(queue).kind \in {"finished", "error"}
StopReturns == dlg_pc = "wait" /\ dlg_pc' = "idle"

\* C24: exactly one of the run button and the stop button is enabled in every
\* state; the stop button becomes enabled only by an accepted start and is
\* disabled again by the handling of Completed, of Failed and by the stop
\* action; and whenever no worker is running, every emitted event has been
\* handled and no handler is active, the run button is enabled.
C24_ButtonStates ==
  /\ [](btn_run # btn_stop)
  /\ []((~IsRunning(worker) /\ queue = <<>> /\ dlg_pc = "idle") => btn_run)
  /\ [][/\ (~btn_stop /\ btn_stop') => nRuns' = nRuns + 1
        /\ (HandlesTerminal \/ StopReturns) => ~btn_stop']_vars

\* C25: the step that handles a Completed event leaves no phase displayed as
\* pending: every row that showed pending shows done (all twelve rows for a
\* run in mode analyze, validate or report, which emits no status), and every
\* other row keeps what it showed.
C25_NoPendingAfterCompleted ==
  [][HandlesFinished =>
       \A r \in Phases :
         /\ phase_table'[r] # "pending"
         /\ phase_table[r] = "pending" => phase_table'[r] = "done"
         /\ phase_table[r] # "pending" => phase_table'[r] = phase_table[r]]_vars
C25_Witness ==
  /\ worker.mode = "report" /\ result.run = worker.id
  /\ emitted # <<>> /\ \A i \in DOMAIN emitted : ~IsStatusEv(emitted[i])
  /\ \A r \in Phases : phase_table[r] = "done"

\* the single-valued artifact of phase k (k = 1, 5, 6)
Artifact(k) ==
  CASE k = 1 -> loc.population_raw [] k = 5 -> loc.admin_gdf
    [] k = 6 -> loc.road_graph
\* the last area of c that returned a value (0: none)
LastReturned(c) ==
  IF \E i \in DOMAIN c : c[i] = "value"
    THEN CHOOSE i \in DOMAIN c :
           c[i] = "value" /\ \A j \in DOMAIN c : (j > i => c[j] # "value")
    ELSE 0
\* the calls of c made before the first one that raised
BeforeFailure(c) ==
  [i \in { j \in DOMAIN c : \A h \in 1..j : c[h] # "raise" } |-> c[i]]
\* phase k is over (its "done" status is the next statement)
PhaseOver(k) == worker.id # 0 /\ worker.pc = "done" /\ worker.ph = k

\* C26 as stated: at the end of phase 1, 5 and 6 the single-valued artifact
\* (population, boundaries, road graph) is the value of the last target area
\* whose retrieval returned a value before any retrieval failed, and is absent
\* only if there is no such area.
C26_LastAreaBeforeFailure ==
  \A k \in {1, 5, 6} :
    PhaseOver(k) => Artifact(k) = LastReturned(BeforeFailure(worker.calls))

\* C26 as amended: boundaries and road graph hold the value of the last area
\* that returned a value before the first failure of their phase; population
\* holds the value of the last area that returned a value, failures of other
\* areas, earlier ones included, notwithstanding.
C26_LastAreaValue ==
  /\ PhaseOver(1) => Artifact(1) = LastReturned(worker.calls)
  /\ \A k \in {5, 6} :
       PhaseOver(k) => Artifact(k) = LastReturned(BeforeFailure(worker.calls))
C26_Witness ==
  /\ PhaseOver(1) /\ worker.calls = <<"raise", "value">>
  /\ loc.population_raw = MaxAreas

====
